---------------------------- MODULE Spec2Model ----------------------------
(***************************************************************************)
(* Teacher performance dashboard: the ASP.NET Web API (login, JWT gate,    *)
(* the cached schools / tests / dashboard endpoints over the JSON data     *)
(* files) and the React client's router and score table.                   *)
(*                                                                         *)
(* Units.  Time is in minutes.  Averages (doubles with one decimal in the  *)
(* program) are integers in tenths: 81.5 is 815.  An exact mean is kept as *)
(* the pair (sum, count) and rounded by RoundToOneDecimal as Math.Round    *)
(* rounds the double: for at most 7 scores every tie sum/count = k + 0.05  *)
(* is a multiple of 1/4, which a double holds exactly, so the rational     *)
(* computation and the double computation agree.                           *)
(***************************************************************************)
EXTENDS Integers, Sequences, FiniteSets, TLC

VARIABLES
    now,        \* the server clock, minutes
    files,      \* the content of api/Data/*.json, read on every data-service call
    cache,      \* IMemoryCache: key -> entry
    session,    \* the token the caller holds (localStorage 'token')
    loginResp,  \* the answer to the last POST /auth/login
    reqs,       \* the protected requests being handled, one record per slot
    agg,        \* one isolated computation of the dashboard result
    client      \* the React client: the auth slice, the router, a table cell

vars == <<now, files, cache, session, loginResp, reqs, agg, client>>

----------------------------------------------------------------------------
(* Bounds of the model *)

MaxScores == 4      \* score records in a drawn score file
MaxTime == 20       \* the clock stops here in Spec and SpecLogin
MaxAuthTime == 70   \* the clock stops here in SpecAuth
MaxLoginTime == 5   \* in Spec and SpecAuth the caller logs in no later than this
MaxFailTime == 15   \* the clock stops here in SpecFail
MaxConcTime == 10   \* the clock stops here in SpecConc
MaxApiTime == 5     \* the clock stops here in SpecApi
MaxRefTime == 35    \* the clock stops here in SpecRef
MaxCellScore == 1050    \* a table cell draws its score from 0 to this, in tenths

----------------------------------------------------------------------------
(* Program constants *)

SchoolAverage == 815        \* 81.5
DistrictAverage == 793      \* 79.3
DashboardTtl == 10          \* TimeSpan.FromMinutes(10)
ReferenceTtl == 30          \* TimeSpan.FromMinutes(30)
ClockSkew == 5              \* TokenValidationParameters.ClockSkew is not set: 300 s
TokenMinutes == 60          \* JwtSettings expiration

Null == "<null>"            \* a query parameter that is absent

----------------------------------------------------------------------------
(* Models/Dashboard.cs *)

NoBody == [none |-> TRUE]       \* a response that carries no data

StudentScore(testId, score) == [testId |-> testId, score |-> score]

AggregateScore(testId, schoolYear, classAverage, totalStudents) ==
    [testId |-> testId, schoolYear |-> schoolYear, classAverage |-> classAverage,
     schoolAverage |-> SchoolAverage, districtAverage |-> DistrictAverage,
     totalStudents |-> totalStudents]

DashboardData(students, scores, aggregateScores, historicalPerformance) ==
    [students |-> students, scores |-> scores, aggregateScores |-> aggregateScores,
     historicalPerformance |-> historicalPerformance]

----------------------------------------------------------------------------
(* LINQ and Math as GetDashboardData uses them *)

RECURSIVE SumScores(_)
SumScores(s) == IF s = <<>> THEN 0 ELSE Head(s).score + SumScores(Tail(s))

\* scores.Where(s => s.TestId == testId).ToList()
WhereAllTests(scores, testId) == scores
WhereFirst(scores, testId) ==
    LET found == SelectSeq(scores, LAMBDA s : s.testId = testId)
    IN  IF found = <<>> THEN <<>> ELSE <<Head(found)>>
Where(scores, testId) == SelectSeq(scores, LAMBDA s : s.testId = testId)

\* testScores.Any()
AnyScore(s) == Len(s) > 0

\* Enumerable.Average over ints: the exact mean as a double, or
\* InvalidOperationException on an empty sequence.
Average(s) ==
    IF Len(s) = 0 THEN [throws |-> TRUE, sum |-> 0, count |-> 1]
    ELSE [throws |-> FALSE, sum |-> SumScores(s), count |-> Len(s)]

\* testScores.Any() ? testScores.Average(s => s.Score) : 0
ClassAverageUnguarded(testScores) == Average(testScores)
ClassAverage(testScores) ==
    IF AnyScore(testScores) THEN Average(testScores)
    ELSE [throws |-> FALSE, sum |-> 0, count |-> 1]

\* Math.Round(value, 1): MidpointRounding.ToEven is the default.  value is
\* sum/count >= 0, the result is in tenths.
RoundToOneDecimal(sum, count) ==
    LET q == (10 * sum) \div count
        r == (10 * sum) % count
    IN  IF 2 * r < count THEN q
        ELSE IF 2 * r > count THEN q + 1
        ELSE IF q % 2 = 0 THEN q ELSE q + 1

\* The message of the catch block of GetDashboardData
DashboardError == "An error occurred while retrieving dashboard data"

\* data = new DashboardData { ... }: the object initializer.  classAverage is
\* the exact mean as the pair (sum, count).
NewDashboardDataCountingScored(schoolYear, testId, students, testScores, classAverage, historicalPerformance) ==
    DashboardData(students, testScores,
                  AggregateScore(testId, schoolYear,
                                 RoundToOneDecimal(classAverage.sum, classAverage.count),
                                 Len(testScores)),
                  historicalPerformance)
NewDashboardDataOwnHistory(schoolYear, testId, students, testScores, classAverage, historicalPerformance) ==
    DashboardData(students, testScores,
                  AggregateScore(testId, schoolYear,
                                 RoundToOneDecimal(classAverage.sum, classAverage.count),
                                 Len(students)),
                  SelectSeq(historicalPerformance, LAMBDA h : h.year = schoolYear))
NewDashboardData(schoolYear, testId, students, testScores, classAverage, historicalPerformance) ==
    DashboardData(students, testScores,
                  AggregateScore(testId, schoolYear,
                                 RoundToOneDecimal(classAverage.sum, classAverage.count),
                                 Len(students)),
                  historicalPerformance)

\* The miss branch with the scores filtered by the school year parameter.
BuildDashboardFilteringByYear(schoolYear, testId, students, scores, historicalPerformance) ==
    LET testScores == Where(scores, schoolYear)
        classAverage == ClassAverage(testScores)
    IN  [status |-> 200,
         body |-> NewDashboardData(schoolYear, testId, students, testScores,
                                   classAverage, historicalPerformance),
         message |-> ""]

\* The miss branch of GetDashboardData after the three reads, under its
\* try/catch: the response and the value to cache.
BuildDashboard(schoolYear, testId, students, scores, historicalPerformance) ==
    LET testScores == Where(scores, testId)
        classAverage == ClassAverage(testScores)
    IN  IF classAverage.throws
        THEN [status |-> 500, body |-> NoBody, message |-> DashboardError]
        ELSE [status |-> 200,
              body |-> NewDashboardData(schoolYear, testId, students, testScores,
                                        classAverage, historicalPerformance),
              message |-> ""]

----------------------------------------------------------------------------
(* Inputs of the isolated computation *)

ScoreValues == {50, 80, 81, 90}
DataTestIds == {"1", "2"}
AskedTestIds == {"1", "2", "9"}
AskedYears == {"2025-2026"}
ScoreRecords == {StudentScore(t, v) : t \in DataTestIds, v \in ScoreValues}

RECURSIVE SeqsUpTo(_, _)
SeqsUpTo(S, n) ==
    IF n = 0 THEN {<<>>}
    ELSE LET shorter == SeqsUpTo(S, n - 1)
         IN  shorter \cup {Append(s, x) : s \in {t \in shorter : Len(t) = n - 1}, x \in S}

Rosters == {<<>>, <<"S001">>, <<"S001", "S002", "S003">>}
HistoricalPerformance(year, subject, classAverage) ==
    [year |-> year, subject |-> subject, classAverage |-> classAverage]
Histories == {<<>>,
              <<HistoricalPerformance("2024-2025", "Math", 823)>>,
              <<HistoricalPerformance("2025-2026", "ELA", 790),
                HistoricalPerformance("2023-2024", "Math", 801),
                HistoricalPerformance("2025-2026", "Math", 823)>>}

AggIdle == [state |-> "none", schoolYear |-> "", testId |-> "", students |-> <<>>,
            scores |-> <<>>, historical |-> <<>>, result |-> NoBody]

----------------------------------------------------------------------------
(* The data files *)

Users == <<[id |-> "1", username |-> "teacher", passwordHash |-> "password",
            role |-> "teacher"],
           [id |-> "2", username |-> "admin", passwordHash |-> "admin123",
            role |-> "admin"]>>
UsersEdited == <<[id |-> "1", username |-> "teacher", passwordHash |-> "admin123",
                  role |-> "teacher"]>>
Schools == <<[id |-> "1", name |-> "Washington Elementary"]>>
SchoolsEdited == <<[id |-> "1", name |-> "Washington Elementary"],
                   [id |-> "2", name |-> "Lincoln Middle School"]>>
Tests == <<[id |-> "1", name |-> "Math Assessment Q1"],
           [id |-> "2", name |-> "ELA Reading Comprehension"]>>

\* The files of the Data directory a controller reads.
FileNames == {"users", "schools", "tests", "students", "scores", "historical"}
\* A file is there and parses ("ok"), is not there ("missing"), or is there
\* and cannot be read or parsed ("unreadable").
FileStates == {"ok", "missing", "unreadable"}
AllReadable == [f \in FileNames |-> "ok"]
\* The files GetDashboardData reads, in the order it reads them.
DashboardFiles == {"students", "scores", "historical"}

\* Two contents of the Data directory; EditData switches between them.
\* since and before are history fields: when the content was put in place
\* and the version it replaced (0: none).
DataVersions ==
    <<[version |-> 1, state |-> AllReadable, since |-> 0, before |-> 0,
       users |-> Users, schools |-> Schools, tests |-> Tests,
       students |-> <<"S001", "S002">>,
       scores |-> <<StudentScore("1", 80), StudentScore("1", 90), StudentScore("2", 50)>>,
       historical |-> <<[year |-> "2024-2025", subject |-> "Math", classAverage |-> 823]>>],
      [version |-> 2, state |-> AllReadable, since |-> 0, before |-> 0,
       users |-> UsersEdited, schools |-> SchoolsEdited, tests |-> Tests,
       students |-> <<"S001">>,
       scores |-> <<StudentScore("1", 81)>>,
       historical |-> <<[year |-> "2024-2025", subject |-> "Math", classAverage |-> 823]>>]>>

\* DataService.ReadJsonFileAsync: an empty list when the file does not exist;
\* otherwise File.ReadAllTextAsync and JsonSerializer.Deserialize, whose
\* exceptions go to the caller.
ReadJsonFileAsyncSwallow(fileName) ==
    IF files.state[fileName] = "ok"
    THEN [throws |-> FALSE, items |-> files[fileName]]
    ELSE [throws |-> FALSE, items |-> <<>>]
ReadJsonFileAsync(fileName) ==
    IF files.state[fileName] = "missing" THEN [throws |-> FALSE, items |-> <<>>]
    ELSE IF files.state[fileName] = "unreadable" THEN [throws |-> TRUE, items |-> <<>>]
    ELSE [throws |-> FALSE, items |-> files[fileName]]

\* DataService.Get*Async: every call reads its file again.
GetUsersAsync == ReadJsonFileAsync("users")
GetSchoolsAsync == ReadJsonFileAsync("schools")
GetTestsAsync == ReadJsonFileAsync("tests")
GetStudentsAsync == ReadJsonFileAsync("students")
GetScoresAsync == ReadJsonFileAsync("scores")
GetHistoricalPerformanceAsync == ReadJsonFileAsync("historical")

----------------------------------------------------------------------------
(* Tokens: TokenService.GenerateToken and the JwtBearer validation *)

NoToken == [sig |-> "none", sub |-> "", role |-> "", nbf |-> 0, exp |-> 0]
\* A token signed with another key; its lifetime never ends in the model.
ForgedToken == [sig |-> "bad", sub |-> "1", role |-> "teacher", nbf |-> 0,
                exp |-> 1000 * TokenMinutes]

GenerateToken(user, t) ==
    [sig |-> "valid", sub |-> user.id, role |-> user.role, nbf |-> t,
     exp |-> t + TokenMinutes]

\* ValidateLifetime = true with the default ClockSkew: a token is expired
\* only when exp < now - ClockSkew, and not yet valid when nbf > now + ClockSkew.
ValidateLifetime(tok, t) == tok.nbf <= t + ClockSkew /\ tok.exp >= t - ClockSkew

\* ValidateIssuerSigningKey, ValidateIssuer, ValidateAudience
ValidateSignature(tok) == tok.sig = "valid"

\* [Authorize] with the JwtBearer scheme as the default scheme
Authorize(tok, t) ==
    tok # NoToken /\ ValidateSignature(tok) /\ ValidateLifetime(tok, t)

\* apiClient.interceptors.request: the Authorization header of a request,
\* from the token in localStorage.
RequestInterceptor(stored) ==
    IF stored # NoToken THEN [authorization |-> "Bearer", token |-> stored]
    ELSE [authorization |-> "", token |-> NoToken]

\* The JwtBearer handler takes the token of an 'Authorization: Bearer' header.
BearerToken(headers) ==
    IF headers.authorization = "Bearer" THEN headers.token ELSE NoToken

----------------------------------------------------------------------------
(* IMemoryCache *)

NoEntry == [present |-> FALSE]

\* An entry is expired when its absolute expiration is <= now.
LiveAtOrBefore(entry, t) == entry.present /\ t <= entry.expiresAt
Live(entry, t) == entry.present /\ t < entry.expiresAt

\* _cache.TryGetValue(key, out value): TRUE with the value of a live entry
TryGetValueNever(c, key, t) == FALSE
TryGetValue(c, key, t) == Live(c[key], t)

\* TryGetValue removes the entry it finds expired.
AfterLookup(c, key, t) ==
    IF c[key].present /\ ~Live(c[key], t) THEN [c EXCEPT ![key] = NoEntry] ELSE c

CacheSetIfAbsent(c, key, value, ttl, t, madeFor) ==
    IF c[key].present /\ t < c[key].expiresAt THEN c
    ELSE [c EXCEPT ![key] = [present |-> TRUE, value |-> value, expiresAt |-> t + ttl,
                             madeFor |-> madeFor, storedAt |-> t]]
\* _cache.Set(key, value, new MemoryCacheEntryOptions().SetAbsoluteExpiration(ttl)):
\* the expiration is relative to the moment of the Set.  madeFor and storedAt
\* are history fields: the request parameters the value was computed for and
\* the moment of the Set.
CacheSet(c, key, value, ttl, t, madeFor) ==
    [c EXCEPT ![key] = [present |-> TRUE, value |-> value, expiresAt |-> t + ttl,
                        madeFor |-> madeFor, storedAt |-> t]]

\* $"dashboard_{schoolId}_{schoolYear}_{testId}"
CacheKey(q) ==
    "dashboard_" \o q.schoolId \o "_" \o q.schoolYear \o "_" \o q.testId

\* string.IsNullOrEmpty
IsNullOrEmpty(s) == s = Null \/ s = ""

BadQueryYearUnchecked(q) == IsNullOrEmpty(q.schoolId) \/ IsNullOrEmpty(q.testId)
BadQuery(q) ==
    IsNullOrEmpty(q.schoolId) \/ IsNullOrEmpty(q.schoolYear) \/ IsNullOrEmpty(q.testId)

----------------------------------------------------------------------------
(* Request parameters the model draws *)

\* The first two differ in schoolYear and testId; the third differs from the
\* first in testId only.
GoodQueries == {[schoolId |-> "1", schoolYear |-> "2", testId |-> "1_1"],
                [schoolId |-> "1", schoolYear |-> "2_1", testId |-> "1"],
                [schoolId |-> "1", schoolYear |-> "2", testId |-> "1"]}
BadQueries == {[schoolId |-> "", schoolYear |-> "2", testId |-> "1"],
               [schoolId |-> "1", schoolYear |-> Null, testId |-> "1"],
               [schoolId |-> "1", schoolYear |-> "2", testId |-> ""]}
Queries == GoodQueries \cup BadQueries
AuthQuery == [schoolId |-> "1", schoolYear |-> "2", testId |-> "1"]
\* The same year and test at another school.
OtherSchoolQuery == [schoolId |-> "2", schoolYear |-> "2", testId |-> "1"]
PairQueries == GoodQueries \cup {OtherSchoolQuery}
NoQuery == [schoolId |-> "", schoolYear |-> "", testId |-> ""]

\* The options of the three selects of the Dashboard page, without the
\* placeholder option, whose value is "".
SchoolOptions == {"1"}
YearOptions == {"2"}
TestOptions == {"1", "2"}
ClientQueries ==
    [schoolId : SchoolOptions, schoolYear : YearOptions, testId : TestOptions]

Keys ==
    {"schools", "tests"}
        \cup {CacheKey(q) : q \in Queries \cup PairQueries \cup ClientQueries}

Usernames == {"teacher", "Teacher", "admin"}
Passwords == {"password", "admin123", ""}

\* The requests the server handles at the same time.
Slots == {1, 2}

\* A slot that handles no request.  tok, sawExpired, servedFor, reads,
\* lookups and sets are history fields: the token presented, whether the lookup found an expired entry, the parameters the served
\* entry was computed for, and the calls made to the data service and to
\* the cache.
IdleReq ==
    [pc |-> "idle", kind |-> "", q |-> NoQuery, tok |-> NoToken,
     status |-> 0, body |-> NoBody, message |-> "", hit |-> FALSE,
     sawExpired |-> FALSE, servedFor |-> NoQuery,
     reads |-> 0, lookups |-> 0, sets |-> 0,
     students |-> <<>>, scores |-> <<>>]

----------------------------------------------------------------------------
(* The client: AppRouter, PrivateRoute and getScoreColor *)

\* The locations a browser can ask for: the two routes and one that matches
\* neither.
Paths == {"/", "/dashboard", "/reports"}

\* What the router shows: the location it ends at and the page it renders.
Shown(path, page) == [path |-> path, page |-> page]

\* <Navigate to="/" />: the location becomes "/" and its route is rendered.
NavigateToRoot == Shown("/", "Login")

\* PrivateRoute: isAuthenticated ? children : <Navigate to="/" />
PrivateRouteOpen(isAuthenticated, children) == children
PrivateRoute(isAuthenticated, children) ==
    IF isAuthenticated THEN children ELSE NavigateToRoot

\* AppRouter: the three <Route> elements.
AppRouter(path, isAuthenticated) ==
    IF path = "/" THEN Shown("/", "Login")
    ELSE IF path = "/dashboard"
         THEN PrivateRoute(isAuthenticated, Shown("/dashboard", "Dashboard"))
         ELSE NavigateToRoot

\* getScoreColor of StudentList; the score is in tenths of a point.
getScoreColorAbove(score) ==
    IF score > 900 THEN "text-green-700 bg-green-100"
    ELSE IF score > 800 THEN "text-blue-700 bg-blue-100"
    ELSE IF score > 700 THEN "text-yellow-700 bg-yellow-100"
    ELSE "text-red-700 bg-red-100"
getScoreColor(score) ==
    IF score >= 900 THEN "text-green-700 bg-green-100"
    ELSE IF score >= 800 THEN "text-blue-700 bg-blue-100"
    ELSE IF score >= 700 THEN "text-yellow-700 bg-yellow-100"
    ELSE "text-red-700 bg-red-100"

\* A cell of the score table that is not rendered.
NoCell == [state |-> "none", score |-> 0, color |-> ""]

\* dashboardSlice: initialState.
initialState ==
    [students |-> <<>>, scores |-> <<>>, aggregateScores |-> NoBody,
     historicalPerformance |-> <<>>,
     selectedSchoolId |-> Null, selectedSchoolYear |-> Null, selectedTestId |-> Null,
     loading |-> FALSE, error |-> Null]

\* dashboardSlice: the reducers.
setSelectedSchool(state, payload) == [state EXCEPT !.selectedSchoolId = payload]
setSelectedSchoolYear(state, payload) == [state EXCEPT !.selectedSchoolYear = payload]
setSelectedTest(state, payload) == [state EXCEPT !.selectedTestId = payload]
fetchDataStart(state) == [state EXCEPT !.loading = TRUE, !.error = Null]
fetchDataSuccess(state, payload) ==
    [state EXCEPT !.students = payload.students,
                  !.scores = payload.scores,
                  !.aggregateScores = payload.aggregateScores,
                  !.historicalPerformance = payload.historicalPerformance,
                  !.loading = FALSE,
                  !.error = Null]
fetchDataFailureKeepsLoading(state, payload) == [state EXCEPT !.error = payload]
fetchDataFailureClearing(state, payload) ==
    [state EXCEPT !.students = <<>>, !.scores = <<>>, !.aggregateScores = NoBody,
                  !.historicalPerformance = <<>>,
                  !.loading = FALSE, !.error = payload]
fetchDataFailure(state, payload) == [state EXCEPT !.loading = FALSE, !.error = payload]

\* A JavaScript string or null in a condition.
Truthy(s) == s # Null /\ s # ""

\* value={selected || ''} of a select.
Displayed(selected) == IF Truthy(selected) THEN selected ELSE ""

\* The condition of the selection effect and of loadDashboardData.
AllSelectedOrAny(state) ==
    Truthy(state.selectedSchoolId) \/ Truthy(state.selectedSchoolYear)
        \/ Truthy(state.selectedTestId)
AllSelected(state) ==
    Truthy(state.selectedSchoolId) /\ Truthy(state.selectedSchoolYear)
        /\ Truthy(state.selectedTestId)

\* params: { schoolId, schoolYear, testId } of getDashboardData.
Selection(state) ==
    [schoolId |-> state.selectedSchoolId, schoolYear |-> state.selectedSchoolYear,
     testId |-> state.selectedTestId]

\* The message of the error axios rejects with for a response whose status
\* is not 2xx.
AxiosMessage(status) ==
    IF status = 400 THEN "Request failed with status code 400"
    ELSE IF status = 401 THEN "Request failed with status code 401"
    ELSE "Request failed with status code 500"

\* The client when the page has loaded: nobody is signed in, the location
\* is "/", the dashboard slice is initialState.  effect says that the
\* selection effect of the Dashboard page is due; pending holds the slots of
\* the requests loadDashboardData awaits.  asked, dataFor and last are
\* history fields: the location last asked for, the parameters of the
\* request whose response fetchDataSuccess stored last, and how the last
\* awaited request ended.
ClientInit ==
    [isAuthenticated |-> FALSE, path |-> "/", page |-> "Login", asked |-> "/",
     cell |-> NoCell,
     dashboard |-> initialState, effect |-> FALSE, pending |-> {},
     dataFor |-> NoQuery, last |-> "none"]

----------------------------------------------------------------------------
(* The state after construction *)

ServerInit ==
    /\ now = 0
    /\ files = DataVersions[1]
    /\ cache = [k \in Keys |-> NoEntry]
    /\ session = NoToken
    /\ loginResp = [status |-> 0, username |-> "", password |-> "", user |-> "",
                    token |-> NoToken, message |-> "", raised |-> ""]
    /\ reqs = [r \in Slots |-> IdleReq]

Init == ServerInit /\ agg = AggIdle /\ client = ClientInit

----------------------------------------------------------------------------
(* The environment *)

\* Time passes.
Tick(limit) ==
    /\ now + 5 <= limit
    /\ now' = now + 5
    /\ UNCHANGED <<files, cache, session, loginResp, reqs, agg, client>>

\* The JSON files are replaced on disk.
EditData ==
    /\ \E v \in DOMAIN DataVersions :
          /\ v # files.version
          /\ files' = [DataVersions[v] EXCEPT !.state = files.state, !.since = now,
                                               !.before = files.version]
    /\ UNCHANGED <<now, cache, session, loginResp, reqs, agg, client>>

\* A file is deleted, damaged or locked, or put back.
SetFileState(fileName, state) ==
    /\ files.state[fileName] # state
    /\ files' = [files EXCEPT !.state[fileName] = state]
    /\ UNCHANGED <<now, cache, session, loginResp, reqs, agg, client>>

----------------------------------------------------------------------------
(* AuthController.Login, and loginUser of the client storing the token *)

\* users.FirstOrDefault(u => u.Username == request.Username &&
\*                           u.PasswordHash == request.Password)
MatchingUsersByName(users, username, password) ==
    {i \in DOMAIN users : users[i].username = username}
MatchingUsers(users, username, password) ==
    {i \in DOMAIN users : users[i].username = username
                          /\ users[i].passwordHash = password}

Min(S) == CHOOSE x \in S : \A y \in S : x <= y

LoginResponse(username, password) ==
    LET read == GetUsersAsync
        users == read.items
        found == MatchingUsers(users, username, password)
    IN  IF read.throws
        THEN [status |-> 500, username |-> username, password |-> password,
              user |-> "", token |-> NoToken,
              message |-> "An error occurred during login"]
        ELSE IF found = {}
        THEN [status |-> 401, username |-> username, password |-> password,
              user |-> "", token |-> NoToken, message |-> "Invalid credentials"]
        ELSE LET user == users[Min(found)]
             IN  [status |-> 200, username |-> username, password |-> password,
                  user |-> user.id, token |-> GenerateToken(user, now), message |-> ""]

\* loginUser of the client: the token of a 200 response is put in
\* localStorage; any other response is thrown as an Error whose message is
\* 'Invalid credentials' for 401 and 'Login failed' otherwise.
loginUserOneMessage(response, stored) ==
    [stored |-> IF response.status = 200 /\ response.token # NoToken
                THEN response.token ELSE stored,
     raised |-> IF response.status = 200 THEN "" ELSE "Invalid credentials"]
loginUser(response, stored) ==
    [stored |-> IF response.status = 200 /\ response.token # NoToken
                THEN response.token ELSE stored,
     raised |-> IF response.status = 200 THEN ""
                ELSE IF response.status = 401 THEN "Invalid credentials"
                ELSE "Login failed"]

\* POST /auth/login through loginUser; raised is what loginUser throws.
PostLogin(username, password) ==
    LET response == LoginResponse(username, password)
        called == loginUser(response, session)
    IN  /\ loginResp' = [status |-> response.status, username |-> username,
                         password |-> password, user |-> response.user,
                         token |-> response.token, message |-> response.message,
                         raised |-> called.raised]
        /\ session' = called.stored
        /\ UNCHANGED <<now, files, cache, reqs, agg>>

\* A login that is not made from the Login page of the client.
Login(username, password) == PostLogin(username, password) /\ UNCHANGED client

----------------------------------------------------------------------------
(* The protected endpoints *)

Respond(req, status, body, message) ==
    [req EXCEPT !.pc = "done", !.status = status, !.body = body, !.message = message,
                !.students = <<>>, !.scores = <<>>]

\* DashboardController.GetDashboardData up to its first await: the parameter
\* check, the cache key and the lookup.
GetDashboardData(r, req) ==
    IF BadQuery(req.q)
    THEN /\ reqs' = [reqs EXCEPT ![r] =
                        Respond(req, 400, NoBody,
                                "schoolId, schoolYear, and testId are required")]
         /\ UNCHANGED cache
    ELSE LET cacheKey == CacheKey(req.q)
             looked == [req EXCEPT !.lookups = 1]
         IN  IF TryGetValue(cache, cacheKey, now)
             THEN /\ reqs' = [reqs EXCEPT ![r] =
                                 Respond([looked EXCEPT !.hit = TRUE,
                                              !.servedFor = cache[cacheKey].madeFor],
                                         200, cache[cacheKey].value, "")]
                  /\ UNCHANGED cache
             ELSE /\ reqs' = [reqs EXCEPT ![r] =
                                 [looked EXCEPT !.pc = "delay",
                                                !.sawExpired = cache[cacheKey].present]]
                  /\ cache' = AfterLookup(cache, cacheKey, now)

\* The lookup with a sliding expiration: a hit renews the entry.
GetReferenceSliding(r, req) ==
    LET cacheKey == req.kind
        looked == [req EXCEPT !.lookups = 1]
    IN  IF TryGetValue(cache, cacheKey, now)
        THEN /\ reqs' = [reqs EXCEPT ![r] =
                            Respond([looked EXCEPT !.hit = TRUE], 200,
                                    cache[cacheKey].value, "")]
             /\ cache' = [cache EXCEPT ![cacheKey].expiresAt = now + ReferenceTtl]
        ELSE /\ reqs' = [reqs EXCEPT ![r] =
                            [looked EXCEPT !.pc = "delay",
                                           !.sawExpired = cache[cacheKey].present]]
             /\ cache' = AfterLookup(cache, cacheKey, now)

\* TestsController.GetTests and SchoolsController.GetSchools up to the first
\* await; the cache key is the constant "tests" or "schools".
GetReference(r, req) ==
    LET cacheKey == req.kind
        looked == [req EXCEPT !.lookups = 1]
    IN  IF TryGetValue(cache, cacheKey, now)
        THEN /\ reqs' = [reqs EXCEPT ![r] =
                            Respond([looked EXCEPT !.hit = TRUE], 200,
                                    cache[cacheKey].value, "")]
             /\ UNCHANGED cache
        ELSE /\ reqs' = [reqs EXCEPT ![r] =
                            [looked EXCEPT !.pc = "delay",
                                           !.sawExpired = cache[cacheKey].present]]
             /\ cache' = AfterLookup(cache, cacheKey, now)

\* A request arrives: UseAuthentication / UseAuthorization run before the
\* controller action, and answer 401 themselves.
Handle(r, kind, tok, q) ==
    /\ reqs[r].pc = "idle"
    /\ LET req == [IdleReq EXCEPT !.kind = kind, !.q = q, !.tok = tok]
       IN  IF ~Authorize(tok, now)
           THEN /\ reqs' = [reqs EXCEPT ![r] = Respond(req, 401, NoBody, "")]
                /\ UNCHANGED cache
           ELSE IF kind = "dashboard"
                THEN GetDashboardData(r, req)
                ELSE GetReference(r, req)
    /\ UNCHANGED <<now, files, session, loginResp, agg>>

\* A request that is not made by the pages of the client.
Request(r, kind, tok, q) == Handle(r, kind, tok, q) /\ UNCHANGED client

\* await _dataService.GetStudentsAsync()
ReadStudents(r) ==
    /\ reqs[r].pc = "delay" /\ reqs[r].kind = "dashboard"
    /\ LET req == [reqs[r] EXCEPT !.reads = @ + 1]
           read == GetStudentsAsync
       IN  reqs' = [reqs EXCEPT ![r] =
                       IF read.throws THEN Respond(req, 500, NoBody, DashboardError)
                       ELSE [req EXCEPT !.pc = "students", !.students = read.items]]
    /\ UNCHANGED <<now, files, cache, session, loginResp, agg, client>>

\* await _dataService.GetScoresAsync()
ReadScores(r) ==
    /\ reqs[r].pc = "students"
    /\ LET req == [reqs[r] EXCEPT !.reads = @ + 1]
           read == GetScoresAsync
       IN  reqs' = [reqs EXCEPT ![r] =
                       IF read.throws THEN Respond(req, 500, NoBody, DashboardError)
                       ELSE [req EXCEPT !.pc = "scores", !.scores = read.items]]
    /\ UNCHANGED <<now, files, cache, session, loginResp, agg, client>>

\* await _dataService.GetHistoricalPerformanceAsync(), then the rest of the
\* miss branch without another await: build, _cache.Set, Ok(data).
FinishDashboard(r) ==
    /\ reqs[r].pc = "scores"
    /\ LET req == [reqs[r] EXCEPT !.reads = @ + 1]
           read == GetHistoricalPerformanceAsync
           built == BuildDashboard(req.q.schoolYear, req.q.testId, req.students,
                                   req.scores, read.items)
       IN  IF read.throws
           THEN /\ reqs' = [reqs EXCEPT ![r] = Respond(req, 500, NoBody, DashboardError)]
                /\ UNCHANGED cache
           ELSE IF built.status = 200
           THEN /\ cache' = CacheSet(cache, CacheKey(req.q), built.body,
                                     DashboardTtl, now, req.q)
                /\ reqs' = [reqs EXCEPT ![r] =
                               Respond([req EXCEPT !.sets = 1], 200, built.body, "")]
           ELSE /\ reqs' = [reqs EXCEPT ![r] =
                               Respond(req, built.status, NoBody, built.message)]
                /\ UNCHANGED cache
    /\ UNCHANGED <<now, files, session, loginResp, agg, client>>

\* The miss branch with the dashboard's expiration.
FinishReferenceShortLived(r) ==
    /\ reqs[r].pc = "delay" /\ reqs[r].kind \in {"schools", "tests"}
    /\ LET req == [reqs[r] EXCEPT !.reads = @ + 1]
           read == IF req.kind = "tests" THEN GetTestsAsync ELSE GetSchoolsAsync
           items == [items |-> read.items]
       IN  IF read.throws
           THEN /\ reqs' = [reqs EXCEPT ![r] =
                               Respond(req, 500, NoBody,
                                       "An error occurred while retrieving " \o req.kind)]
                /\ UNCHANGED cache
           ELSE /\ cache' = CacheSet(cache, req.kind, items, DashboardTtl, now, NoQuery)
                /\ reqs' = [reqs EXCEPT ![r] =
                               Respond([req EXCEPT !.sets = 1], 200, items, "")]
    /\ UNCHANGED <<now, files, session, loginResp, agg, client>>

\* The miss branch of GetTests / GetSchools after Task.Delay(300).
FinishReference(r) ==
    /\ reqs[r].pc = "delay" /\ reqs[r].kind \in {"schools", "tests"}
    /\ LET req == [reqs[r] EXCEPT !.reads = @ + 1]
           read == IF req.kind = "tests" THEN GetTestsAsync ELSE GetSchoolsAsync
           items == [items |-> read.items]
       IN  IF read.throws
           THEN /\ reqs' = [reqs EXCEPT ![r] =
                               Respond(req, 500, NoBody,
                                       "An error occurred while retrieving " \o req.kind)]
                /\ UNCHANGED cache
           ELSE /\ cache' = CacheSet(cache, req.kind, items, ReferenceTtl, now, NoQuery)
                /\ reqs' = [reqs EXCEPT ![r] =
                               Respond([req EXCEPT !.sets = 1], 200, items, "")]
    /\ UNCHANGED <<now, files, session, loginResp, agg, client>>

\* The response has been sent; the slot is free again.
Return(r) ==
    /\ reqs[r].pc = "done"
    /\ r \notin client.pending
    /\ reqs' = [reqs EXCEPT ![r] = IdleReq]
    /\ UNCHANGED <<now, files, cache, session, loginResp, agg, client>>

----------------------------------------------------------------------------
(* The client's pages *)

\* The router renders for a location and the auth slice as they now are.
\* The effects of the Dashboard page are due when it is mounted.
Route(c, path, isAuthenticated) ==
    LET shown == AppRouter(path, isAuthenticated)
    IN  [c EXCEPT !.isAuthenticated = isAuthenticated, !.asked = path,
                  !.path = shown.path, !.page = shown.page,
                  !.effect = shown.page = "Dashboard"
                                /\ (c.page # "Dashboard" \/ c.effect)]

\* The Login page submits: loginUser, and on success the auth slice is
\* signed in and the page navigates to /dashboard.
LoginPageSubmit(username, password) ==
    /\ client.page = "Login"
    /\ PostLogin(username, password)
    /\ client' = IF loginResp'.status = 200
                 THEN Route(client, "/dashboard", TRUE)
                 ELSE client

\* Dashboard.handleLogout: dispatch(logout()), navigate('/').  The
\* dashboard slice has no reducer for logout.  Whether the logout reducer
\* of the auth slice removes the token from localStorage is not in the
\* source: either happens.
HandleLogout ==
    /\ client.page = "Dashboard"
    /\ client' = Route(client, "/", FALSE)
    /\ session' \in {session, NoToken}
    /\ UNCHANGED <<now, files, cache, loginResp, reqs, agg>>

\* Dashboard.loadInitialData: getSchools() or getTests() through apiClient.
LoadInitialData(r, kind) ==
    /\ client.page = "Dashboard"
    /\ Handle(r, kind, BearerToken(RequestInterceptor(session)), NoQuery)
    /\ UNCHANGED client

\* onChange of one of the three selects: the user picks an option other
\* than the one displayed.
Select(field, value) ==
    /\ client.page = "Dashboard"
    /\ LET state == client.dashboard
       IN  \/ /\ field = "school"
              /\ value \in SchoolOptions \cup {""}
              /\ value # Displayed(state.selectedSchoolId)
              /\ client' = [client EXCEPT !.dashboard = setSelectedSchool(state, value),
                                          !.effect = TRUE]
           \/ /\ field = "schoolYear"
              /\ value \in YearOptions \cup {""}
              /\ value # Displayed(state.selectedSchoolYear)
              /\ client' = [client EXCEPT !.dashboard = setSelectedSchoolYear(state, value),
                                          !.effect = TRUE]
           \/ /\ field = "test"
              /\ value \in TestOptions \cup {""}
              /\ value # Displayed(state.selectedTestId)
              /\ client' = [client EXCEPT !.dashboard = setSelectedTest(state, value),
                                          !.effect = TRUE]
    /\ UNCHANGED <<now, files, cache, session, loginResp, reqs, agg>>

\* The selection effect of the Dashboard page with loadDashboardData up to
\* its await: fetchDataStart, and the request leaves through apiClient.
LoadDashboardData(r) ==
    /\ client.page = "Dashboard"
    /\ client.effect
    /\ IF AllSelected(client.dashboard)
       THEN /\ Handle(r, "dashboard", BearerToken(RequestInterceptor(session)),
                      Selection(client.dashboard))
            /\ client' = [client EXCEPT !.effect = FALSE,
                                        !.dashboard = fetchDataStart(@),
                                        !.pending = @ \cup {r}]
       ELSE /\ client' = [client EXCEPT !.effect = FALSE]
            /\ UNCHANGED <<now, files, cache, session, loginResp, reqs, agg>>

\* loadDashboardData after its await: fetchDataSuccess with the data of a
\* 200 response, fetchDataFailure with the message of the error otherwise.
Receive(r) ==
    /\ reqs[r].pc = "done"
    /\ r \in client.pending
    /\ reqs' = [reqs EXCEPT ![r] = IdleReq]
    /\ client' = IF reqs[r].status = 200
                 THEN [client EXCEPT !.dashboard = fetchDataSuccess(@, reqs[r].body),
                                     !.pending = @ \ {r},
                                     !.dataFor = reqs[r].q,
                                     !.last = "success"]
                 ELSE [client EXCEPT !.dashboard =
                                         fetchDataFailure(@, AxiosMessage(reqs[r].status)),
                                     !.pending = @ \ {r},
                                     !.last = "failure"]
    /\ UNCHANGED <<now, files, cache, session, loginResp, agg>>

\* The location changes inside the running application (a link, the back
\* and forward buttons): the store is kept.
GoTo(path) ==
    /\ client' = Route(client, path, client.isAuthenticated)
    /\ UNCHANGED <<now, files, cache, session, loginResp, reqs, agg>>

\* The browser loads the application at a location: a new store, in which
\* nobody is signed in.
Load(path) ==
    /\ client' = Route(ClientInit, path, ClientInit.isAuthenticated)
    /\ UNCHANGED <<now, files, cache, session, loginResp, reqs, agg>>

\* StudentList renders the cell of one score.
InitCell ==
    /\ ServerInit
    /\ agg = AggIdle
    /\ \E score \in 0 .. MaxCellScore :
          client = [ClientInit EXCEPT !.cell = [state |-> "in", score |-> score,
                                                color |-> ""]]

RenderCell ==
    /\ client.cell.state = "in"
    /\ client' = [client EXCEPT !.cell.state = "out",
                                !.cell.color = getScoreColor(client.cell.score)]
    /\ UNCHANGED <<now, files, cache, session, loginResp, reqs, agg>>

----------------------------------------------------------------------------
(* The isolated computation: BuildDashboard on drawn file contents *)

InitAgg ==
    /\ ServerInit
    /\ client = ClientInit
    /\ agg \in [state : {"in"}, schoolYear : AskedYears, testId : AskedTestIds,
                 students : Rosters, scores : SeqsUpTo(ScoreRecords, MaxScores),
                 historical : Histories, result : {NoBody}]

Compute ==
    /\ agg.state = "in"
    /\ agg' = [agg EXCEPT !.state = "out",
                          !.result = BuildDashboard(agg.schoolYear, agg.testId,
                                         agg.students, agg.scores, agg.historical)]
    /\ UNCHANGED <<now, files, cache, session, loginResp, reqs, client>>

----------------------------------------------------------------------------
(* Specifications *)

Tokens == {NoToken, ForgedToken, session}

\* The dashboard endpoint over the lifetime of its cache entries, with the
\* files edited meanwhile.
Next ==
    \/ Tick(MaxTime)
    \/ EditData
    \/ now <= MaxLoginTime /\ Login("teacher", "password")
    \/ \E q \in GoodQueries : Request(1, "dashboard", session, q)
    \/ ReadStudents(1)
    \/ ReadScores(1)
    \/ FinishDashboard(1)
    \/ Return(1)

Spec == Init /\ [][Next]_vars

\* The dashboard and tests endpoints behind the gate, over the lifetime of a
\* token and of a tests entry.
NextAuth ==
    \/ Tick(MaxAuthTime)
    \/ now <= MaxLoginTime /\ Login("teacher", "password")
    \/ \E tok \in Tokens, q \in {AuthQuery} \cup BadQueries :
          Request(1, "dashboard", tok, q)
    \/ \E tok \in Tokens : Request(1, "tests", tok, NoQuery)
    \/ ReadStudents(1)
    \/ ReadScores(1)
    \/ FinishDashboard(1)
    \/ FinishReference(1)
    \/ Return(1)

SpecAuth == Init /\ [][NextAuth]_vars

\* POST /auth/login alone.
NextLogin ==
    \/ Tick(MaxTime)
    \/ EditData
    \/ \E u \in Usernames, p \in Passwords : Login(u, p)

SpecLogin == Init /\ [][NextLogin]_vars

\* BuildDashboard on every drawn content of the files.
SpecAgg == InitAgg /\ [][Compute]_vars

\* The dashboard endpoint while its three files come and go.
NextFail ==
    \/ Tick(MaxFailTime)
    \/ now <= MaxLoginTime /\ Login("teacher", "password")
    \/ \E f \in DashboardFiles, st \in FileStates : SetFileState(f, st)
    \/ Request(1, "dashboard", session, AuthQuery)
    \/ ReadStudents(1)
    \/ ReadScores(1)
    \/ FinishDashboard(1)
    \/ Return(1)

SpecFail == Init /\ [][NextFail]_vars

\* Two requests at a time on the dashboard and schools endpoints, with the
\* files edited meanwhile.
NextConc ==
    \/ Tick(MaxConcTime)
    \/ EditData
    \/ now = 0 /\ Login("teacher", "password")
    \/ \E r \in Slots : Request(r, "dashboard", session, AuthQuery)
    \/ \E r \in Slots : Request(r, "schools", session, NoQuery)
    \/ \E r \in Slots : ReadStudents(r)
    \/ \E r \in Slots : ReadScores(r)
    \/ \E r \in Slots : FinishDashboard(r)
    \/ \E r \in Slots : FinishReference(r)
    \/ \E r \in Slots : Return(r)

SpecConc == Init /\ [][NextConc]_vars

\* The three cached endpoints over the lifetime of a schools or tests entry.
NextRef ==
    \/ Tick(MaxRefTime)
    \/ now = 0 /\ Login("teacher", "password")
    \/ Request(1, "dashboard", session, AuthQuery)
    \/ \E kind \in {"schools", "tests"} : Request(1, kind, session, NoQuery)
    \/ ReadStudents(1)
    \/ ReadScores(1)
    \/ FinishDashboard(1)
    \/ FinishReference(1)
    \/ Return(1)

SpecRef == Init /\ [][NextRef]_vars

\* Two requests at a time on the dashboard and schools endpoints over the
\* lifetime of a schools entry.
NextExpiry ==
    \/ Tick(MaxRefTime)
    \/ now = 0 /\ Login("teacher", "password")
    \/ \E r \in Slots : Request(r, "dashboard", session, AuthQuery)
    \/ \E r \in Slots : Request(r, "schools", session, NoQuery)
    \/ \E r \in Slots : ReadStudents(r)
    \/ \E r \in Slots : ReadScores(r)
    \/ \E r \in Slots : FinishDashboard(r)
    \/ \E r \in Slots : FinishReference(r)
    \/ \E r \in Slots : Return(r)

SpecExpiry == Init /\ [][NextExpiry]_vars

\* Two dashboard requests at a time for several triples; the files are
\* edited only while no request is being handled.
NextPair ==
    \/ (\A r \in Slots : reqs[r].pc = "idle") /\ EditData
    \/ now = 0 /\ Login("teacher", "password")
    \/ \E r \in Slots, q \in PairQueries : Request(r, "dashboard", session, q)
    \/ \E r \in Slots : ReadStudents(r)
    \/ \E r \in Slots : ReadScores(r)
    \/ \E r \in Slots : FinishDashboard(r)
    \/ \E r \in Slots : Return(r)

SpecPair == Init /\ [][NextPair]_vars

\* The client's router, with logins, logouts and page loads.
NextClient ==
    \/ Tick(MaxTime)
    \/ \E u \in Usernames, p \in Passwords : LoginPageSubmit(u, p)
    \/ HandleLogout
    \/ \E path \in Paths : GoTo(path)
    \/ \E path \in Paths : Load(path)

SpecClient == Init /\ [][NextClient]_vars

\* Logins and the requests of the Dashboard page for the option lists,
\* while the users file comes and goes.
NextApi ==
    \/ Tick(MaxApiTime)
    \/ \E u \in {"teacher"}, p \in {"password", ""} : LoginPageSubmit(u, p)
    \/ HandleLogout
    \/ \E state \in FileStates : SetFileState("users", state)
    \/ \E kind \in {"schools", "tests"} : LoadInitialData(1, kind)
    \/ FinishReference(1)
    \/ Return(1)

SpecApi == Init /\ [][NextApi]_vars

\* The Dashboard page: selections, the fetches they start, and the
\* server's steps on them, while the scores file comes and goes.
NextFetch ==
    \/ LoginPageSubmit("teacher", "password")
    \/ HandleLogout
    \/ \E field \in {"school", "schoolYear", "test"},
          value \in SchoolOptions \cup YearOptions \cup TestOptions \cup {""} :
          Select(field, value)
    \/ \E r \in Slots : LoadDashboardData(r)
    \/ \E r \in Slots : ReadStudents(r)
    \/ \E r \in Slots : ReadScores(r)
    \/ \E r \in Slots : FinishDashboard(r)
    \/ \E r \in Slots : Receive(r)
    \/ \E state \in {"ok", "unreadable"} : SetFileState("scores", state)

SpecFetch == Init /\ [][NextFetch]_vars

\* The same, where every request that is being handled is answered and
\* every answer is delivered.
SpecFetchFair ==
    /\ Init
    /\ [][NextFetch]_vars
    /\ \A r \in Slots :
          /\ WF_vars(ReadStudents(r))
          /\ WF_vars(ReadScores(r))
          /\ WF_vars(FinishDashboard(r))
          /\ WF_vars(Receive(r))

\* getScoreColor on every drawn score.
SpecCell == InitCell /\ [][RenderCell]_vars

----------------------------------------------------------------------------
(* Properties of the computed result, under SpecAgg *)

\* The records of a score file that belong to a test, by position.
MatchingAt(scores, testId) == {i \in DOMAIN scores : scores[i].testId = testId}

RECURSIVE SumAt(_, _)
SumAt(scores, I) ==
    IF I = {} THEN 0
    ELSE LET i == CHOOSE j \in I : TRUE
         IN  scores[i].score + SumAt(scores, I \ {i})

Abs(x) == IF x < 0 THEN -x ELSE x

AggDone == agg.state = "out"
AggMatching == MatchingAt(agg.scores, agg.testId)
AggClassAverage == agg.result.body.aggregateScores.classAverage

\* C1: when no score record has the requested testId, the computation
\* answers 200 with classAverage 0 and an empty scores list; it does not fail.
C1_NoMatchGivesZero ==
    (AggDone /\ AggMatching = {}) =>
        /\ agg.result.status = 200
        /\ AggClassAverage = 0
        /\ agg.result.body.scores = <<>>

\* A non-empty score file with no record of the requested test was computed.
C1_Witness ==
    /\ AggDone
    /\ agg.scores # <<>>
    /\ AggMatching = {}
    /\ agg.result.status = 200

\* C2: when some record has the requested testId, classAverage is the mean
\* of the score field over exactly those records, to the nearest tenth:
\* the result r in tenths is within half a tenth of 10 * sum / count.  The
\* records 80 and 90 of test 2 with 50 of test 1, asked for test 2, give 85.0.
C2_MeanOfMatching ==
    (AggDone /\ AggMatching # {}) =>
        /\ agg.result.status = 200
        /\ LET count == Cardinality(AggMatching)
               sum == SumAt(agg.scores, AggMatching)
           IN  2 * Abs(AggClassAverage * count - 10 * sum) <= count
        /\ (/\ agg.testId = "2"
            /\ agg.scores = <<StudentScore("2", 80), StudentScore("2", 90),
                              StudentScore("1", 50)>>)
           => AggClassAverage = 850

\* The example of the claim was computed.
C2_Witness ==
    /\ AggDone
    /\ agg.testId = "2"
    /\ agg.scores = <<StudentScore("2", 80), StudentScore("2", 90), StudentScore("1", 50)>>
    /\ AggClassAverage = 850

\* C3, as claimed: when the exact mean lies halfway between two one-decimal
\* values, classAverage is the one further from zero (80.25 gives 80.3).
C3_TiesRoundAwayFromZero ==
    (AggDone /\ AggMatching # {}) =>
        LET count == Cardinality(AggMatching)
            sum == SumAt(agg.scores, AggMatching)
        IN  (2 * ((10 * sum) % count) = count) =>
                /\ agg.result.status = 200
                /\ AggClassAverage = ((10 * sum) \div count) + 1

\* C13: totalStudents is the length of the roster the repository returned,
\* whatever number of score records have the requested testId, none included.
C13_TotalStudentsIsRosterLength ==
    AggDone =>
        /\ agg.result.status = 200
        /\ agg.result.body.aggregateScores.totalStudents = Len(agg.students)

\* A roster of three with no record of the requested test gave totalStudents 3.
C13_Witness ==
    /\ AggDone
    /\ Len(agg.students) = 3
    /\ agg.scores # <<>> /\ AggMatching = {}
    /\ agg.result.body.aggregateScores.totalStudents = 3

\* C17: historicalPerformance in the result is the list the repository
\* returned: same length, same records, same order, whatever test and school
\* year were asked.
C17_HistoryPassedThrough ==
    AggDone =>
        /\ agg.result.status = 200
        /\ Len(agg.result.body.historicalPerformance) = Len(agg.historical)
        /\ \A i \in DOMAIN agg.historical :
               agg.result.body.historicalPerformance[i] = agg.historical[i]

\* A history of three records of several years and subjects, not in year
\* order, came out as it went in.
C17_Witness ==
    /\ AggDone
    /\ Len(agg.historical) = 3
    /\ agg.historical[1].year # agg.historical[2].year
    /\ agg.historical[1].subject # agg.historical[2].subject
    /\ agg.result.body.historicalPerformance = agg.historical

\* The position in the score file of the k-th record of a test.
KthMatch(scores, testId, k) ==
    CHOOSE i \in MatchingAt(scores, testId) :
        Cardinality({j \in MatchingAt(scores, testId) : j < i}) = k - 1

\* C20: the scores list of a computed result has one element per record of
\* the requested test, and its k-th element is the k-th such record of the
\* score file: all of them, in file order, and none of another test.
C20_ScoresAreTheMatchingRecords ==
    AggDone =>
        LET out == agg.result.body.scores
        IN  /\ agg.result.status = 200
            /\ Len(out) = Cardinality(AggMatching)
            /\ \A k \in 1 .. Cardinality(AggMatching) :
                   out[k] = agg.scores[KthMatch(agg.scores, agg.testId, k)]

\* Records of test 1 on both sides of a record of test 2 were kept in order.
C20_Witness ==
    /\ AggDone
    /\ agg.testId = "1"
    /\ agg.scores = <<StudentScore("1", 90), StudentScore("2", 50), StudentScore("1", 80),
                      StudentScore("2", 81)>>
    /\ agg.result.body.scores = <<StudentScore("1", 90), StudentScore("1", 80)>>

----------------------------------------------------------------------------
(* Properties of the endpoints *)

\* The cache key a request uses.
KeyOf(req) == IF req.kind = "dashboard" THEN CacheKey(req.q) ELSE req.kind
TtlOf(req) == IF req.kind = "dashboard" THEN DashboardTtl ELSE ReferenceTtl
ReadsOf(req) == IF req.kind = "dashboard" THEN 3 ELSE 1

\* One of the three query parameters is absent or empty.
MissingParameter(q) ==
    \E f \in {"schoolId", "schoolYear", "testId"} : q[f] = Null \/ q[f] = ""

\* In this step slot r takes a request that passes the gate.
Enters(r) == reqs[r].pc = "idle" /\ reqs'[r].pc # "idle" /\ reqs'[r].status # 401
\* In this step slot r ends the miss branch.
Finishes(r) == reqs[r].pc \notin {"idle", "done"} /\ reqs'[r].pc = "done"

\* C4: a dashboard request that arrives while the entry stored by an earlier
\* request with the same parameters has not expired is answered at once with
\* the stored value, which is what that earlier request returned, and calls
\* the data service not at all.
C4_RepeatServedFromCache ==
    [][\A r \in Slots :
        /\ (/\ Enters(r)
            /\ reqs'[r].kind = "dashboard"
            /\ ~MissingParameter(reqs'[r].q)
            /\ cache[CacheKey(reqs'[r].q)].present
            /\ cache[CacheKey(reqs'[r].q)].madeFor = reqs'[r].q
            /\ now < cache[CacheKey(reqs'[r].q)].expiresAt)
           => /\ reqs'[r].pc = "done"
              /\ reqs'[r].status = 200
              /\ reqs'[r].body = cache[CacheKey(reqs'[r].q)].value
              /\ reqs'[r].reads = 0
              /\ cache' = cache
        /\ (Finishes(r) /\ reqs'[r].kind = "dashboard")
           => /\ reqs'[r].status = 200
              /\ cache'[CacheKey(reqs'[r].q)].present
              /\ cache'[CacheKey(reqs'[r].q)].value = reqs'[r].body
              /\ cache'[CacheKey(reqs'[r].q)].madeFor = reqs'[r].q
    ]_vars

\* A request was answered from its own entry after the files changed: the
\* answer is not what a computation on the present files would give.
C4_Witness ==
    /\ reqs[1].pc = "done" /\ reqs[1].hit /\ reqs[1].status = 200
    /\ reqs[1].servedFor = reqs[1].q
    /\ reqs[1].reads = 0
    /\ reqs[1].body # BuildDashboard(reqs[1].q.schoolYear, reqs[1].q.testId,
                           files.students, files.scores, files.historical).body

\* C5: an entry is served only at a time before its expiresAt; a request
\* that arrives at or after the expiry of the entry of its key takes the
\* miss branch, and the miss branch reads the data service again and stores
\* the value it returns with expiresAt = now + ttl (10 minutes for a
\* dashboard entry, 30 for schools and tests).
C5_ExpiredEntryIsMiss ==
    [][\A r \in Slots :
        /\ (reqs[r].pc = "idle" /\ reqs'[r].hit)
           => /\ cache[KeyOf(reqs'[r])].present
              /\ now < cache[KeyOf(reqs'[r])].expiresAt
        /\ (/\ Enters(r)
            /\ ~(reqs'[r].kind = "dashboard" /\ MissingParameter(reqs'[r].q))
            /\ cache[KeyOf(reqs'[r])].present
            /\ now >= cache[KeyOf(reqs'[r])].expiresAt)
           => /\ reqs'[r].pc = "delay"
              /\ ~reqs'[r].hit
              /\ reqs'[r].sawExpired
        /\ Finishes(r)
           => /\ ~reqs'[r].hit
              /\ reqs'[r].status = 200
              /\ reqs'[r].reads = ReadsOf(reqs'[r])
              /\ cache'[KeyOf(reqs'[r])].present
              /\ cache'[KeyOf(reqs'[r])].value = reqs'[r].body
              /\ cache'[KeyOf(reqs'[r])].expiresAt = now + TtlOf(reqs'[r])
    ]_vars

\* A tests request that found its entry expired has recomputed and stored.
C5_Witness ==
    /\ reqs[1].pc = "done" /\ reqs[1].kind = "tests"
    /\ reqs[1].sawExpired /\ ~reqs[1].hit
    /\ reqs[1].reads = 1
    /\ cache["tests"].expiresAt = now + ReferenceTtl

\* C6: a dashboard request that passes the gate with schoolId, schoolYear or
\* testId null or empty is answered 400 with a message, calls neither the
\* data service nor the cache, and leaves the cache as it was.
C6_MissingParameterIs400 ==
    [][\A r \in Slots :
        (Enters(r) /\ reqs'[r].kind = "dashboard" /\ MissingParameter(reqs'[r].q))
        => /\ reqs'[r].pc = "done"
           /\ reqs'[r].status = 400
           /\ reqs'[r].message # ""
           /\ reqs'[r].body = NoBody
           /\ reqs'[r].reads = 0
           /\ reqs'[r].lookups = 0
           /\ reqs'[r].sets = 0
           /\ cache' = cache
    ]_vars

\* A request without schoolYear was answered 400 while the cache held a
\* live dashboard entry.
C6_Witness ==
    /\ reqs[1].pc = "done" /\ reqs[1].status = 400
    /\ reqs[1].q.schoolYear = Null
    /\ Live(cache[CacheKey(AuthQuery)], now)

\* The token of a request is missing, wrongly signed, or past its exp.
BadToken(tok, t) == tok = NoToken \/ tok.sig # "valid" \/ t > tok.exp

\* C7, as claimed: a request with no token, a token with an invalid signature
\* or an expired token is answered 401 and reaches no controller action: no
\* data-service read, no cache read or write.
C7_BadTokenNeverReachesController ==
    [][\A r \in Slots :
        (reqs[r].pc = "idle" /\ reqs'[r].pc # "idle" /\ BadToken(reqs'[r].tok, now))
        => /\ reqs'[r].pc = "done"
           /\ reqs'[r].status = 401
           /\ reqs'[r].reads = 0
           /\ reqs'[r].lookups = 0
           /\ reqs'[r].sets = 0
           /\ cache' = cache
    ]_vars

C9_AcceptedExactlyUntilExpiry ==
    [][\A r \in Slots :
        (/\ reqs[r].pc = "idle" /\ reqs'[r].pc # "idle"
         /\ reqs'[r].tok # NoToken
         /\ reqs'[r].tok = session)
        => /\ (now < reqs'[r].tok.exp) => reqs'[r].status # 401
           /\ (now > reqs'[r].tok.exp) => reqs'[r].status = 401
    ]_vars

\* C10, as claimed: a dashboard request is never answered with a cached
\* result that was computed for other parameters.
C10_EntryOnlyForOwnTriple ==
    \A r \in Slots :
        (reqs[r].pc = "done" /\ reqs[r].kind = "dashboard" /\ reqs[r].hit)
        => reqs[r].servedFor = reqs[r].q

\* The versions of the files that were in place at some instant of the
\* interval [t - DashboardTtl, t].  With two versions, every version replaced
\* before the last edit is one of the two.
RecentVersions(t) ==
    {files.version} \cup
    (IF files.before # 0 /\ files.since >= t - DashboardTtl
     THEN DOMAIN DataVersions ELSE {})

\* In this step slot r answers a dashboard request with 200.
Answers(r) ==
    /\ reqs[r].pc # "done" /\ reqs'[r].pc = "done"
    /\ reqs'[r].kind = "dashboard" /\ reqs'[r].status = 200

\* C14, as claimed: a dashboard response is what the uncached computation
\* gives for the parameters of the request on the files as they were at some
\* instant of the 10 minutes before the response.
C14_ResponseIsRecentComputation ==
    [][\A r \in Slots :
        Answers(r) =>
            \E v \in RecentVersions(now) :
                reqs'[r].body =
                    BuildDashboard(reqs'[r].q.schoolYear, reqs'[r].q.testId,
                                   DataVersions[v].students, DataVersions[v].scores,
                                   DataVersions[v].historical).body
    ]_vars

\* C21, as claimed: in the result of every dashboard request answered 200,
\* schoolAverage is 81.5 and districtAverage is 79.3, and the testId and
\* schoolYear of aggregateScores are those of the request.
C21_FixedAveragesAndEcho ==
    \A r \in Slots :
        (reqs[r].pc = "done" /\ reqs[r].kind = "dashboard" /\ reqs[r].status = 200)
        => /\ reqs[r].body.aggregateScores.schoolAverage = 815
           /\ reqs[r].body.aggregateScores.districtAverage = 793
           /\ reqs[r].body.aggregateScores.testId = reqs[r].q.testId
           /\ reqs[r].body.aggregateScores.schoolYear = reqs[r].q.schoolYear

----------------------------------------------------------------------------
(* Properties of the endpoints when a file cannot be read, under SpecFail *)

\* The file a dashboard request reads in its next step.
FileReadAt(pc) ==
    IF pc = "delay" THEN "students" ELSE IF pc = "students" THEN "scores" ELSE "historical"

\* In this step slot r calls the data service.
Reads(r) == reqs[r].pc \in {"delay", "students", "scores"} /\ reqs'[r] # reqs[r]

\* C11, as claimed: when a dashboard request reads students, scores or
\* historical data whose file is missing or cannot be read, the request ends
\* in a 500 error that carries no data.
C11_UnreadableSourceIs500 ==
    [][\A r \in Slots :
        (/\ Reads(r)
         /\ reqs[r].kind = "dashboard"
         /\ files.state[FileReadAt(reqs[r].pc)] # "ok")
        => /\ reqs'[r].pc = "done"
           /\ reqs'[r].status = 500
           /\ reqs'[r].body = NoBody
    ]_vars

DashboardParts == {"students", "scores", "aggregateScores", "historicalPerformance"}

\* C12: a dashboard request that has ended carries either status 200 and a
\* body with all four parts, or another status and no data; a request whose
\* read of a file throws ends at that step with 500 and no data, has stored
\* nothing, leaves the cache as it was, and leaves no live entry under its
\* key, so the next request for the key takes the miss branch.
C12_AllOrNothing ==
    [][\A r \in Slots :
        /\ (reqs'[r].pc = "done" /\ reqs'[r].kind = "dashboard")
           => IF reqs'[r].status = 200
              THEN DOMAIN reqs'[r].body = DashboardParts
              ELSE reqs'[r].body = NoBody
        /\ (/\ Reads(r)
            /\ reqs[r].kind = "dashboard"
            /\ files.state[FileReadAt(reqs[r].pc)] = "unreadable")
           => /\ reqs'[r].pc = "done"
              /\ reqs'[r].status = 500
              /\ reqs'[r].sets = 0
              /\ cache' = cache
              /\ ~cache'[CacheKey(reqs'[r].q)].present
    ]_vars

\* A request found its entry expired, read students and scores, and failed
\* on the historical file: 500, and the key has no entry.
C12_Witness ==
    /\ reqs[1].pc = "done" /\ reqs[1].status = 500
    /\ reqs[1].sawExpired
    /\ reqs[1].reads = 3
    /\ ~cache[CacheKey(reqs[1].q)].present

----------------------------------------------------------------------------
(* Properties of concurrent requests, under SpecConc *)

\* What the miss branch of slot r computes in its last step from what it
\* has read and reads now.
OwnResult(r) ==
    IF reqs[r].kind = "dashboard"
    THEN DashboardData(reqs[r].students,
                       SelectSeq(reqs[r].scores, LAMBDA s : s.testId = reqs[r].q.testId),
                       reqs'[r].body.aggregateScores, files.historical)
    ELSE [items |-> IF reqs[r].kind = "schools" THEN files.schools ELSE files.tests]

\* C15: a request that finds no live entry under its key takes the miss
\* branch whatever the other requests are doing; when it ends the miss
\* branch it answers 200 with the result it computed itself from its own
\* reads, all parts present, and has stored it: the entry of the key is then
\* that result, the last one written, and no other key has changed.
C15_ConcurrentMissesLastWriteWins ==
    [][\A r \in Slots :
        /\ (/\ Enters(r)
            /\ ~(reqs'[r].kind = "dashboard" /\ MissingParameter(reqs'[r].q))
            /\ ~(cache[KeyOf(reqs'[r])].present
                 /\ now < cache[KeyOf(reqs'[r])].expiresAt))
           => reqs'[r].pc = "delay"
        /\ Finishes(r)
           => /\ reqs'[r].status = 200
              /\ reqs'[r].body = OwnResult(r)
              /\ reqs'[r].kind = "dashboard" => DOMAIN reqs'[r].body = DashboardParts
              /\ reqs'[r].sets = 1
              /\ cache'[KeyOf(reqs'[r])].present
              /\ cache'[KeyOf(reqs'[r])].value = reqs'[r].body
              /\ \A k \in Keys \ {KeyOf(reqs'[r])} : cache'[k] = cache[k]
    ]_vars

\* Two requests for one key both found the key absent, took the miss branch
\* and computed different results; the entry holds one of them and not the
\* other.
C15_Witness ==
    /\ reqs[1].pc = "done" /\ reqs[2].pc = "done"
    /\ reqs[1].kind = "dashboard" /\ reqs[2].kind = "dashboard"
    /\ reqs[1].q = reqs[2].q
    /\ reqs[1].sets = 1 /\ reqs[2].sets = 1
    /\ ~reqs[1].sawExpired /\ ~reqs[2].sawExpired
    /\ reqs[1].body # reqs[2].body
    /\ cache[CacheKey(reqs[1].q)].present
    /\ cache[CacheKey(reqs[1].q)].value = reqs[2].body

----------------------------------------------------------------------------
(* Properties of two computations on the same files, under SpecPair *)

\* Slot r holds a result that its own miss branch computed.
Fresh(r) ==
    /\ reqs[r].pc = "done" /\ reqs[r].kind = "dashboard"
    /\ reqs[r].status = 200 /\ ~reqs[r].hit

\* C23: two freshly computed results on the same files, for the same testId
\* and either the same schoolYear or the same schoolId, have the same
\* students, scores, classAverage and totalStudents.
C23_SchoolAndYearDoNotFilter ==
    \A r1, r2 \in Slots :
        (/\ Fresh(r1) /\ Fresh(r2)
         /\ reqs[r1].q.testId = reqs[r2].q.testId
         /\ \/ reqs[r1].q.schoolYear = reqs[r2].q.schoolYear
            \/ reqs[r1].q.schoolId = reqs[r2].q.schoolId)
        => /\ reqs[r1].body.students = reqs[r2].body.students
           /\ reqs[r1].body.scores = reqs[r2].body.scores
           /\ reqs[r1].body.aggregateScores.classAverage =
                  reqs[r2].body.aggregateScores.classAverage
           /\ reqs[r1].body.aggregateScores.totalStudents =
                  reqs[r2].body.aggregateScores.totalStudents

\* Results were computed for two school years of one school and one test,
\* on files with records of that test.
C23_Witness ==
    /\ Fresh(1) /\ Fresh(2)
    /\ reqs[1].q.schoolId = reqs[2].q.schoolId
    /\ reqs[1].q.testId = reqs[2].q.testId
    /\ reqs[1].q.schoolYear # reqs[2].q.schoolYear
    /\ reqs[1].body.scores # <<>>
    /\ reqs[1].body.scores = reqs[2].body.scores

----------------------------------------------------------------------------
(* Properties of the three classes of entries, under SpecRef *)

\* C16: an entry stored by the schools or tests endpoint expires 30 minutes
\* after the moment it was stored and an entry stored by the dashboard
\* endpoint 10 minutes after; a request is answered from the entry of its own
\* key exactly while fewer minutes than that have passed since it was stored,
\* whatever the state of the other entries; the keys of the three classes
\* differ and a request changes no entry but that of its own key.
C16_TtlPerResourceClass ==
    [][\A r \in Slots :
        /\ Finishes(r)
           => /\ cache'[KeyOf(reqs'[r])].storedAt = now
              /\ cache'[KeyOf(reqs'[r])].expiresAt =
                     IF reqs'[r].kind \in {"schools", "tests"} THEN now + 30 ELSE now + 10
        /\ (Enters(r) /\ ~(reqs'[r].kind = "dashboard" /\ MissingParameter(reqs'[r].q)))
           => LET entry == cache[KeyOf(reqs'[r])]
                  minutes == IF reqs'[r].kind \in {"schools", "tests"} THEN 30 ELSE 10
              IN  reqs'[r].hit <=> (entry.present /\ now < entry.storedAt + minutes)
        /\ reqs'[r] # reqs[r]
           => /\ reqs'[r].kind = "dashboard" => KeyOf(reqs'[r]) \notin {"schools", "tests"}
              /\ reqs'[r].kind \in {"schools", "tests"} => KeyOf(reqs'[r]) = reqs'[r].kind
              /\ \A k \in Keys \ {KeyOf(reqs'[r])} : cache'[k] = cache[k]
    ]_vars

\* A schools request was answered from an entry stored 25 minutes earlier,
\* while the dashboard entry had expired and the tests entry had been stored
\* at another moment.
C16_Witness ==
    /\ reqs[1].pc = "done" /\ reqs[1].kind = "schools" /\ reqs[1].hit
    /\ cache["schools"].present /\ now = cache["schools"].storedAt + 25
    /\ cache[CacheKey(AuthQuery)].present
    /\ cache[CacheKey(AuthQuery)].expiresAt <= now
    /\ cache["tests"].present /\ cache["tests"].storedAt # cache["schools"].storedAt

\* C24: a hit leaves the cache as it is; the expiresAt of an entry changes
\* only when the entry is stored again; and a request that arrives when the
\* ttl of its class (10 minutes for a dashboard entry, 30 for schools and
\* tests) or more has passed since the entry of its key was stored takes the
\* miss branch, whatever hits there were.
C24_ExpiryIsAbsolute ==
    [][/\ \A r \in Slots :
            /\ (reqs[r].pc = "idle" /\ reqs'[r].hit) => cache' = cache
            /\ (/\ Enters(r)
                /\ ~(reqs'[r].kind = "dashboard" /\ MissingParameter(reqs'[r].q))
                /\ cache[KeyOf(reqs'[r])].present
                /\ now >= cache[KeyOf(reqs'[r])].storedAt
                          + (IF reqs'[r].kind = "dashboard" THEN 10 ELSE 30))
               => ~reqs'[r].hit /\ reqs'[r].pc = "delay"
       /\ \A k \in Keys :
            (/\ cache[k].present /\ cache'[k].present
             /\ cache'[k].expiresAt # cache[k].expiresAt)
            => \E r \in Slots : Finishes(r) /\ KeyOf(reqs'[r]) = k /\ reqs'[r].sets = 1
    ]_vars

\* A schools request was answered from the entry, and a later schools
\* request, 30 minutes after the entry was stored, found it expired.
C24_Witness ==
    /\ reqs[1].pc = "done" /\ reqs[1].kind = "schools" /\ reqs[1].hit
    /\ reqs[2].pc = "delay" /\ reqs[2].kind = "schools" /\ reqs[2].sawExpired
    /\ now = 30

----------------------------------------------------------------------------
(* Properties of the client *)

\* C18: the Dashboard page is rendered only while isAuthenticated is true;
\* when the location asked for is /dashboard and isAuthenticated is false,
\* or the location is neither / nor /dashboard, the router ends at / and
\* renders the Login page.
C18_DashboardOnlyWhenAuthenticated ==
    [][/\ client'.page = "Dashboard" => client'.isAuthenticated
       /\ (/\ client' # client
           /\ \/ client'.asked = "/dashboard" /\ ~client'.isAuthenticated
              \/ client'.asked \notin {"/", "/dashboard"})
          => client'.path = "/" /\ client'.page = "Login"
    ]_vars

\* After a login and a logout, with the token still stored, /dashboard was
\* asked for and the Login page is shown at /.
C18_Witness ==
    /\ session # NoToken
    /\ ~client.isAuthenticated
    /\ client.asked = "/dashboard"
    /\ client.path = "/" /\ client.page = "Login"

\* C19: getScoreColor gives green for a score of 90 or more, blue from 80
\* up to but not 90, yellow from 70 up to but not 80, red below 70 (scores
\* in tenths): each score has exactly one of the four colors.
C19_FourScoreBands ==
    client.cell.state = "out" =>
        LET score == client.cell.score
            color == client.cell.color
        IN  /\ (color = "text-green-700 bg-green-100") <=> (score >= 900)
            /\ (color = "text-blue-700 bg-blue-100") <=> (800 <= score /\ score < 900)
            /\ (color = "text-yellow-700 bg-yellow-100") <=> (700 <= score /\ score < 800)
            /\ (color = "text-red-700 bg-red-100") <=> (score < 700)

\* The score 80.0, the lowest of the blue band, was rendered blue.
C19_Witness ==
    /\ client.cell.state = "out"
    /\ client.cell.score = 800
    /\ client.cell.color = "text-blue-700 bg-blue-100"

----------------------------------------------------------------------------
(* The client's API module *)

\* A login was made from the Login page in this step.
LoggedIn == client.page = "Login" /\ (loginResp' # loginResp \/ session' # session)

\* The request slot r takes in this step.
Sends(r) == reqs[r].pc = "idle" /\ reqs'[r].pc # "idle"

\* C22: a successful login stores the token of the response, a failed one
\* keeps what was stored and raises 'Invalid credentials' for 401 and
\* 'Login failed' for any other status; every request that leaves while a
\* token is stored presents that token as its bearer token.
C22_TokenStoredAndAttached ==
    [][/\ LoggedIn =>
            IF loginResp'.status = 200
            THEN /\ session' = loginResp'.token
                 /\ session' # NoToken
                 /\ loginResp'.raised = ""
            ELSE /\ session' = session
                 /\ loginResp'.raised = IF loginResp'.status = 401
                                        THEN "Invalid credentials"
                                        ELSE "Login failed"
       /\ \A r \in Slots :
             Sends(r) /\ session # NoToken => reqs'[r].tok = session]_vars

\* C22 witness: a login answered 500 raised 'Login failed' and kept the
\* token of the earlier login, which a request in flight presented.
C22_Witness ==
    /\ loginResp.status = 500
    /\ loginResp.raised = "Login failed"
    /\ session # NoToken
    /\ reqs[1].pc # "idle"
    /\ reqs[1].tok = session

----------------------------------------------------------------------------
(* The Dashboard page and the dashboard slice *)

\* loadDashboardData starts to await slot r in this step.
Starts(r) == r \in client'.pending \ client.pending

\* C25: a dashboard request leaves only when the three selections are
\* non-empty, with those selections as its parameters, and no request the
\* page awaits is answered 400.
C25_RequestsOnlyWhenAllSelected ==
    /\ [][\A r \in Slots :
             Starts(r) => /\ Truthy(client.dashboard.selectedSchoolId)
                          /\ Truthy(client.dashboard.selectedSchoolYear)
                          /\ Truthy(client.dashboard.selectedTestId)
                          /\ reqs'[r].kind = "dashboard"
                          /\ reqs'[r].q.schoolId = client.dashboard.selectedSchoolId
                          /\ reqs'[r].q.schoolYear = client.dashboard.selectedSchoolYear
                          /\ reqs'[r].q.testId = client.dashboard.selectedTestId]_vars
    /\ [](\A r \in client.pending : reqs[r].status # 400)

\* C25 witness: the placeholder of the school select was chosen again while
\* a request was awaited, the selection effect has run and sent nothing.
C25_Witness ==
    /\ client.page = "Dashboard"
    /\ client.dashboard.selectedSchoolId = ""
    /\ ~client.effect
    /\ Cardinality(client.pending) = 1
    /\ client.last = "success"

\* No request is awaited and no selection effect is due.
Settled == client.pending = {} /\ ~client.effect

\* C26: when three options are selected, nothing is in flight and the last
\* request to complete succeeded, the store holds the response for the
\* selected school, year and test.
C26_StoreHoldsSelectedData ==
    (client.page = "Dashboard" /\ Settled /\ AllSelected(client.dashboard)
        /\ client.last = "success")
        => /\ client.dataFor = Selection(client.dashboard)
           /\ client.dashboard.aggregateScores.testId = client.dashboard.selectedTestId
           /\ client.dashboard.aggregateScores.schoolYear
                 = client.dashboard.selectedSchoolYear

\* C27: loading is true whenever a dashboard request has been started and
\* has neither resolved nor rejected.
C27_LoadingWhilePending == client.pending # {} => client.dashboard.loading

\* C28: when every request is answered and every answer delivered, a
\* state with loading = true leads to one with loading = false, and
\* loading is false whenever every started request has completed.
C28_LoadingEnds ==
    /\ client.dashboard.loading ~> ~client.dashboard.loading
    /\ [](client.pending = {} => ~client.dashboard.loading)

\* C28 witness: a fetch was rejected, nothing is awaited any more, and
\* loading is false with the error recorded.
C28_Witness ==
    /\ client.last = "failure"
    /\ client.pending = {}
    /\ ~client.dashboard.loading
    /\ client.dashboard.error = AxiosMessage(500)

\* The request of slot r is rejected to loadDashboardData in this step.
Rejects(r) == r \in client.pending \ client'.pending /\ reqs[r].status # 200

\* The data and the selections of the dashboard slice stay as they are.
DataAndSelectionsKept ==
    /\ client'.dashboard.students = client.dashboard.students
    /\ client'.dashboard.scores = client.dashboard.scores
    /\ client'.dashboard.aggregateScores = client.dashboard.aggregateScores
    /\ client'.dashboard.historicalPerformance = client.dashboard.historicalPerformance
    /\ client'.dashboard.selectedSchoolId = client.dashboard.selectedSchoolId
    /\ client'.dashboard.selectedSchoolYear = client.dashboard.selectedSchoolYear
    /\ client'.dashboard.selectedTestId = client.dashboard.selectedTestId
    /\ client'.dataFor = client.dataFor

\* C29: a rejected fetch sets error to the message and loading to false,
\* a started fetch sets loading to true and error to null, and both leave
\* the data and the three selections as they were.
C29_FailureAndStartKeepData ==
    [][\A r \in Slots :
          /\ Rejects(r) => /\ client'.dashboard.error = AxiosMessage(reqs[r].status)
                            /\ ~client'.dashboard.loading
                            /\ DataAndSelectionsKept
          /\ Starts(r) => /\ client'.dashboard.error = Null
                           /\ client'.dashboard.loading
                           /\ DataAndSelectionsKept]_vars

\* C29 witness: after a rejected fetch for the selected school, year and
\* test, the store holds the data of an earlier fetch for another test.
C29_Witness ==
    /\ client.last = "failure"
    /\ Settled
    /\ AllSelected(client.dashboard)
    /\ client.dashboard.error = AxiosMessage(500)
    /\ client.dashboard.aggregateScores # NoBody
    /\ client.dataFor # Selection(client.dashboard)

\* C30: when nobody is signed in, the dashboard slice holds no data and no
\* selection.
C30_LogoutResetsDashboard ==
    ~client.isAuthenticated =>
        /\ client.dashboard.students = <<>>
        /\ client.dashboard.scores = <<>>
        /\ client.dashboard.aggregateScores = NoBody
        /\ client.dashboard.historicalPerformance = <<>>
        /\ client.dashboard.selectedSchoolId = Null
        /\ client.dashboard.selectedSchoolYear = Null
        /\ client.dashboard.selectedTestId = Null

====
